---- MODULE Spec2Model ----
(***************************************************************************)
(* State-machine model of TwitchDropsMiner's push-connection client        *)
(* (src/websocket.py, class Websocket), of the topic type it multiplexes   *)
(* (src/constants.py, class WebsocketTopic) and of the watch scheduler     *)
(* (src/twitch.py, class Twitch).                                          *)
(*                                                                         *)
(* Every asyncio task is a process with a position; one action is the code *)
(* a task runs between two suspension points (an await that can yield).    *)
(***************************************************************************)
EXTENDS Integers, Sequences, FiniteSets, Bags, TLC

(***************************************************************************)
(* Bounds of the model.                                                    *)
(***************************************************************************)
MaxConn == 2        \* connections the reconnect loop establishes
MaxCalls == 2       \* add_topics invocations
MaxKey == 2         \* distinct topic keys used by add_topics callers
MaxKeyAll == 1      \* the same while the reconnect loop makes MaxConn connections
MaxConnLow == 1     \* connections made where the reconnect loop is bounded lower
MaxLo == 1          \* lowest keys a batch of topics may start at
MinTopic == 49      \* fewest topics in a batch of the capacity specification
MaxTopic == 51      \* most topics in a batch of the capacity specification
MaxChannels == 2    \* channels run() is asked to track
MaxChannelsLow == 1 \* the same where two connections are made, or close() is called
MaxGames == 1       \* games a stream may be playing
MaxWatchers == 3    \* watcher tasks the callers of watch() create
MaxRunWatchers == 2 \* watcher tasks run() creates
MaxTicks == 61      \* passes of its loop a watcher task makes
MaxRunTicks == 1    \* passes a watcher task makes while run() is modelled too
MaxCampaigns == 1   \* campaigns in the inventory
MaxDrops == 2       \* timed drops of a campaign
MaxDelays == 1      \* online_delay tasks alive at a time
MaxCloses == 1      \* calls of Twitch.close()

(***************************************************************************)
(* Program constants.                                                      *)
(***************************************************************************)
TopicCeiling == 50  \* websocket.py:168  len(self._topics) >= 50
BonusEvery == 30    \* twitch.py:168    i = (i + 1) % 30

VARIABLES
    pc,           \* position of the connect() task in its reconnect loop
    connNo,       \* how many connections websocket_connect has yielded
    _ws,          \* state of the connection object self._ws refers to
    connected,    \* self.connected (asyncio.Event)
    reconnect,    \* self.reconnect (asyncio.Event)
    _send_queue,  \* self._send_queue
    _recv_dict,   \* self._recv_dict: token -> future (named by its owner)
    fut,          \* state of the future each task last created through send()
    _topics,      \* self._topics
    _ping_task,   \* self._ping_task: 0 is None, m the task of connection m
    monitors,     \* position of every _ping_loop task ever created
    calls,        \* position and locals of every add_topics invocation
    sent,         \* request frames written to the current connection
    closeCalled,  \* Websocket.close() has been called
    writing,      \* the queue entry websocket.send is writing (line 101), if any
    send_open,    \* that send found the connection open and is writing
    cancel_requested,  \* heartbeat tasks with a cancellation still to reach them
    \* ---- Twitch (twitch.py) ----
    rpc,                \* position of the run() task
    channels,           \* self.channels: the channel ids in insertion order
    stream,             \* channel.stream of every channel: NoStream or a stream
    games,              \* the games drops can be earned in (run(), line 93)
    drops_left,         \* the drops the loops of lines 94-102 have not reached
    _watching_channel,  \* self._watching_channel: 0 is None
    _watching_task,     \* self._watching_task: 0 is None, else a watcher task
    watchers,           \* every watcher task created by watch(): its channel,
                        \* state, the await it is suspended at and its local i
    _channel_change,    \* self._channel_change (asyncio.Event)
    refresh_channels,   \* the local of run()
    refresh_at,         \* how far the refresh pass of lines 139-141 has come
    online_delay,       \* the online_delay tasks that have not ended: a bag
                        \* of <<channel, await the task is suspended at>>
    checking,           \* the channel whose check_online() the handler the
                        \* pump is suspended in awaits: 0 is none
    closer              \* position of every call of Twitch.close()

wsVars == <<pc, connNo, _ws, connected, reconnect, _send_queue, _recv_dict, fut,
            _topics, _ping_task, monitors, calls, sent, closeCalled,
            writing, send_open, cancel_requested>>

schedVars == <<rpc, channels, stream, games, drops_left, _watching_channel,
               _watching_task, watchers, _channel_change, refresh_channels,
               refresh_at, online_delay, checking, closer>>

vars == <<wsVars, schedVars>>

Conns == 1..MaxConn
Calls == 1..MaxCalls
Keys == 1..MaxKey

\* The batches of topic keys add_topics is called with: runs of keys
Batches(maxLo, maxHi) == {lo..hi : lo \in 1..maxLo, hi \in 0..maxHi}

(***************************************************************************)
(* constants.py: WebsocketTopic.  A topic is a key and a handler; the      *)
(* handler is named by the add_topics invocation that supplied it.         *)
(***************************************************************************)
WebsocketTopic(topic_id, process) == [id |-> topic_id, process |-> process]

\* WebsocketTopic.__str__
TopicStr(topic) == topic.id

\* WebsocketTopic.__eq__ against another WebsocketTopic
TopicEq(topic, other) == topic.id = other.id

\* WebsocketTopic.__eq__ against a str (the reflected comparison of line 86)
TopicEqStr(topic, other) == topic.id = other

TopicIds(S) == {TopicStr(t) : t \in S}

\* Mutant of DifferenceUpdate: topics compared as objects, handler included
DifferenceUpdateByIdentity(new, held) == new \ held

\* set.difference_update under __eq__/__hash__ by id
DifferenceUpdate(new, held) == {t \in new : \A h \in held : ~TopicEq(t, h)}

(***************************************************************************)
(* Tokens and futures.                                                     *)
(***************************************************************************)
PING == <<"PING">>                 \* the reserved heartbeat token

\* create_nonce: 30 random alphanumerics; two draws are taken to differ, so
\* the nonce of an invocation is named by the invocation.
create_nonce(c) == <<"nonce", c>>

PingOwner(m) == <<"ping", m>>
CallOwner(c) == <<"call", c>>
Owners == {PingOwner(m) : m \in Conns} \cup {CallOwner(c) : c \in Calls}


\* dict[key] = value
DictSet(d, key, value) ==
    [t \in DOMAIN d \cup {key} |-> IF t = key THEN value ELSE d[t]]

\* dict.pop(key) of a present key: the dict without it
DictPop(d, key) == [t \in DOMAIN d \ {key} |-> d[t]]

\* A future is pending, cancelled, or done with the frame that resolved it.
NoFrame == [type |-> "none"]
NoFuture == [st |-> "none", result |-> NoFrame]
Pending == [st |-> "pending", result |-> NoFrame]
Cancelled == [st |-> "cancelled", result |-> NoFrame]

\* Future.set_result(message)
set_result(message) == [st |-> "result", result |-> message]

\* Future.done(): resolved or cancelled
FutDone(o) == fut[o].st \in {"result", "cancelled"}

(***************************************************************************)
(* Wire format.  A payload travels JSON-encoded inside the MESSAGE frame   *)
(* and is decoded again before dispatch (line 87).                         *)
(***************************************************************************)
Payloads == {"stream-up", "stream-down"}
json_dumps(v) == <<"json", v>>
json_loads(s) == s[2]
Decodes(s) == Len(s) = 2 /\ s[1] = "json"
Garbage == <<"not json">>

_access_token == "access-token"

PingMessage == [type |-> "PING"]
ListenMessage(topic_ids) ==
    [type |-> "LISTEN",
     data |-> [topics |-> topic_ids, auth_token |-> _access_token]]

\* line 99-101: every frame but the heartbeat is stamped with its nonce
Stamp(entry) ==
    IF entry.nonce # PING
    THEN [type |-> entry.message.type, data |-> entry.message.data,
          nonce |-> entry.nonce]
    ELSE entry.message

\* Frames the server may push; nonce 0 names a nonce no request carries.
Nonces == {create_nonce(c) : c \in 0..MaxCalls} \cup {PING}
Frames ==
    {[type |-> "PONG"], [type |-> "RECONNECT"], [type |-> "UNKNOWN"]}
    \cup {[type |-> "RESPONSE", nonce |-> n] : n \in Nonces}
    \cup {[type |-> "MESSAGE", data |-> [topic |-> k, message |-> m]] :
              k \in 0..MaxKey, m \in {json_dumps(p) : p \in Payloads} \cup {Garbage}}

\* The frames of a set that carry a nonce (all but the heartbeats)
Requests(frames) == {f \in frames : f.type # "PING"}

\* What websocket.recv() can return, and the 0.5 s timeout of line 62
RawMessages == {json_dumps(f) : f \in Frames} \cup {Garbage}
Timeout == <<"timeout">>

\* The frames line 83 reads a topic from: only these can reach a handler
Dispatched == {json_dumps(f) : f \in {g \in Frames : g.type = "MESSAGE"}}

\* The same for the keys 0..MaxKeyAll
DispatchedAll ==
    {json_dumps(f) : f \in {g \in Frames : g.type = "MESSAGE"
                                          /\ g.data.topic <= MaxKeyAll}}

(***************************************************************************)
(* Websocket.__init__ and the part of connect() before the reconnect loop: *)
(* nothing is connected, nothing is held, the add_topics task of line 43   *)
(* is one of the invocations still to start.                               *)
(***************************************************************************)
InitWs ==
    /\ pc = "connecting"
    /\ connNo = 0
    /\ _ws = "none"
    /\ connected = FALSE
    /\ reconnect = FALSE
    /\ _send_queue = <<>>
    /\ _recv_dict = << >>
    /\ fut = [o \in Owners |-> NoFuture]
    /\ _topics = {}
    /\ _ping_task = 0
    /\ monitors = [m \in Conns |-> "none"]
    /\ calls = [c \in Calls |-> [st |-> "new", topics |-> {}]]
    /\ sent = {}
    /\ closeCalled = FALSE
    /\ writing = <<>>
    /\ send_open = FALSE
    /\ cancel_requested = {}

\* Twitch.__init__, lines 58-63
NoStream == [online |-> FALSE]
InitTwitch ==
    /\ rpc = "start"
    /\ channels = <<>>
    /\ stream = << >>
    /\ games = {}
    /\ drops_left = <<>>
    /\ _watching_channel = 0
    /\ _watching_task = 0
    /\ watchers = <<>>
    /\ _channel_change = FALSE
    /\ refresh_channels = FALSE
    /\ refresh_at = 0
    /\ online_delay = EmptyBag
    /\ checking = 0
    /\ closer = [k \in 1..MaxCloses |-> "none"]

Init == InitWs /\ InitTwitch

(***************************************************************************)
(* Websocket.send (lines 148-158), for the task `owner`.                   *)
(***************************************************************************)
send(owner, message) ==
    LET nonce == IF message.type = "PING" THEN PING ELSE create_nonce(owner[2])
    IN  /\ _send_queue' = Append(_send_queue, [nonce |-> nonce, message |-> message])
        /\ _recv_dict' = DictSet(_recv_dict, nonce, owner)
        /\ fut' = [fut EXCEPT ![owner] = Pending]

\* The _ping_loop tasks that have started and not ended
LiveMonitors(ms) ==
    {m \in Conns : ms[m] \in {"start", "waitconn", "woken", "await", "timedout",
                               "cancelling", "sleep"}}

\* Task.cancel() on the heartbeat task m (0 is None): the cancellation of a
\* task that has not ended is requested, and reaches the task when the event
\* loop next runs it
TaskCancel(m) ==
    IF m # 0 /\ m \in LiveMonitors(monitors)
    THEN cancel_requested \cup {m}
    ELSE cancel_requested

\* Event.set() wakes every task suspended in Event.wait(); a waiter that was
\* cancelled is not woken
Woken(tasks) ==
    [t \in DOMAIN tasks |->
        IF tasks[t] = "waitconn" /\ t \notin cancel_requested
        THEN "woken" ELSE tasks[t]]
WokenCalls(cs) ==
    [c \in DOMAIN cs |-> IF cs[c].st = "waitconn" THEN [cs[c] EXCEPT !.st = "woken"] ELSE cs[c]]

(***************************************************************************)
(* connect(), lines 50-62: websocket_connect yields the next connection    *)
(* and the pump suspends in its first recv().                              *)
(***************************************************************************)
Connect ==
    /\ pc = "connecting"
    /\ connNo < MaxConn
    /\ connNo' = connNo + 1
    /\ _ws' = "open"
    /\ reconnect' = FALSE
    /\ connected' = TRUE
    /\ _ping_task' = connNo + 1
    /\ monitors' = [Woken(monitors) EXCEPT ![connNo + 1] = "start"]
    /\ calls' = WokenCalls(calls)
    /\ sent' = {}
    /\ pc' = "recv"
    /\ UNCHANGED <<_send_queue, _recv_dict, fut, _topics, closeCalled, writing, send_open,
                   cancel_requested>>
    /\ UNCHANGED schedVars

(***************************************************************************)
(* connect(), lines 68-90: what the pump does with what recv() returned.   *)
(* `raw` is the frame (or Timeout); `handler_ok` says whether the handler  *)
(* a MESSAGE is dispatched to returns or raises.  The result is the new    *)
(* dict, futures, reconnect flag, the handler invocations made, and        *)
(* whether an exception left the try block.                                *)
(***************************************************************************)
Outcome(d, f, r, inv, raised) ==
    [dict |-> d, fut |-> f, reconnect |-> r, invoked |-> inv, raised |-> raised]

HandlePong(message) ==
    IF PING \in DOMAIN _recv_dict
    THEN LET ping_future == _recv_dict[PING]
         IN  Outcome(DictPop(_recv_dict, PING),
                     IF ~FutDone(ping_future)
                     THEN [fut EXCEPT ![ping_future] = set_result(message)]
                     ELSE fut,
                     reconnect, <<>>, FALSE)
    ELSE Outcome(_recv_dict, fut, reconnect, <<>>, FALSE)

HandleResponse(message) ==
    IF message.nonce \notin DOMAIN _recv_dict
    THEN \* dict.pop raises KeyError
         Outcome(_recv_dict, fut, reconnect, <<>>, TRUE)
    ELSE LET o == _recv_dict[message.nonce]
         IN  IF FutDone(o)
             THEN \* Future.set_result raises InvalidStateError
                  Outcome(DictPop(_recv_dict, message.nonce), fut, reconnect, <<>>, TRUE)
             ELSE Outcome(DictPop(_recv_dict, message.nonce),
                          [fut EXCEPT ![o] = set_result(message)],
                          reconnect, <<>>, FALSE)

\* Mutant of HandleMessage: the frame goes to some held topic, whatever its key
HandleMessageAnyHeld(message, handler_ok) ==
    IF _topics = {} \/ ~Decodes(message.data.message)
    THEN Outcome(_recv_dict, fut, reconnect, <<>>, _topics # {})
    ELSE LET topic == CHOOSE t \in _topics : TRUE
         IN  Outcome(_recv_dict, fut, reconnect,
                     <<[process |-> topic.process,
                        message |-> json_loads(message.data.message)]>>,
                     ~handler_ok)

HandleMessage(message, handler_ok) ==
    LET target_topic == message.data.topic
        matching == {topic \in _topics : TopicEqStr(topic, target_topic)}
    IN  IF matching = {}
        THEN Outcome(_recv_dict, fut, reconnect, <<>>, FALSE)
        ELSE IF ~Decodes(message.data.message)
        THEN \* json.loads raises before the handler is called
             Outcome(_recv_dict, fut, reconnect, <<>>, TRUE)
        ELSE LET topic == CHOOSE t \in matching : TRUE
             IN  Outcome(_recv_dict, fut, reconnect,
                         <<[process |-> topic.process,
                            message |-> json_loads(message.data.message)]>>,
                         ~handler_ok)

Handle(raw, handler_ok) ==
    IF raw = Timeout
    THEN Outcome(_recv_dict, fut, reconnect, <<>>, FALSE)
    ELSE IF ~Decodes(raw)
    THEN Outcome(_recv_dict, fut, reconnect, <<>>, TRUE)
    ELSE LET message == json_loads(raw)
             msg_type == message.type
         IN  CASE msg_type = "PONG" -> HandlePong(message)
               [] msg_type = "RESPONSE" -> HandleResponse(message)
               [] msg_type = "RECONNECT" ->
                      Outcome(_recv_dict, fut, TRUE, <<>>, FALSE)
               [] msg_type = "MESSAGE" -> HandleMessage(message, handler_ok)
               [] OTHER -> Outcome(_recv_dict, fut, reconnect, <<>>, FALSE)

\* What the handler of a MESSAGE does: it returns or raises without
\* suspending, or it suspends connect() at line 87 (it awaits a request)
Handlers == {"returns", "raises", "awaits"}

\* lines 104 and 122: `continue` leaves the connection for the next one
Leave ==
    /\ pc' = "connecting"
    /\ _ws' = "closed"
    /\ writing' = <<>>
    /\ send_open' = FALSE
    /\ _send_queue' = _send_queue

\* lines 97-101 and, once the queue is empty, the loop test of line 58: the
\* pump takes the next entry and suspends in websocket.send, or goes back to
\* recv(), or leaves if reconnect is set.  websocket.send writes the entry
\* if it finds the connection open; on a connection that is closing it
\* waits for the close and raises (PumpClosed).
Drain ==
    IF _send_queue # <<>>
    THEN /\ pc' = "send"
         /\ writing' = <<Head(_send_queue)>>
         /\ send_open' = (_ws = "open")
         /\ _send_queue' = Tail(_send_queue)
         /\ _ws' = _ws
    ELSE IF reconnect'
    THEN Leave
    ELSE /\ pc' = "recv"
         /\ _ws' = _ws
         /\ writing' = <<>>
         /\ send_open' = FALSE
         /\ _send_queue' = _send_queue

\* lines 92-94 (and the except of line 120), then lines 96-101
AfterRecv(raised) == IF raised \/ reconnect' THEN Leave ELSE Drain

(***************************************************************************)
(* connect(), lines 62-101: recv() returns (or times out) and the pump     *)
(* runs to its next await: line 87 if the handler suspends, line 101 if    *)
(* there is an entry to send, line 62 otherwise.  A frame received before  *)
(* close() was called is still handled while the connection is closing.    *)
(***************************************************************************)
recv(raw, handler) ==
    /\ pc = "recv"
    /\ _ws \in {"open", "closing"}
    /\ UNCHANGED <<connNo, connected, _topics, _ping_task, monitors, calls, sent,
                   closeCalled, cancel_requested>>
    /\ LET out == Handle(raw, handler # "raises")
       IN  /\ _recv_dict' = out.dict
           /\ fut' = out.fut
           /\ reconnect' = out.reconnect
           /\ IF out.invoked # <<>> /\ handler = "awaits"
              THEN pc' = "handler" /\ UNCHANGED <<_ws, writing, send_open, _send_queue>>
              ELSE AfterRecv(out.raised)

\* The same with a handler that stands outside the model
PumpRecv(raw, handler) == recv(raw, handler) /\ UNCHANGED schedVars

\* line 87: the handler the pump is suspended in returns or raises, and the
\* pump runs on from line 88 to its next await
handler_returns(handler_ok) ==
    /\ pc = "handler"
    /\ reconnect' = reconnect
    /\ AfterRecv(~handler_ok)
    /\ UNCHANGED <<connNo, connected, _recv_dict, fut, _topics, _ping_task,
                   monitors, calls, sent, closeCalled, cancel_requested>>

\* The same with a handler that stands outside the model
HandlerReturns(handler_ok) ==
    /\ checking = 0
    /\ handler_returns(handler_ok)
    /\ UNCHANGED schedVars

(***************************************************************************)
(* connect(), lines 101-102 and 97-98: websocket.send has written the      *)
(* entry taken from the queue; the pump goes on with the next entry.  A    *)
(* write that began on the open connection completes although close() has  *)
(* been called since.                                                      *)
(***************************************************************************)
PumpSend ==
    /\ pc = "send"
    /\ send_open
    /\ _ws \in {"open", "closing"}
    /\ sent' = sent \cup Requests({Stamp(writing[1])})
    /\ reconnect' = reconnect
    /\ Drain
    /\ UNCHANGED <<connNo, connected, _recv_dict, fut, _topics, _ping_task,
                   monitors, calls, closeCalled, cancel_requested>>
    /\ UNCHANGED schedVars

(***************************************************************************)
(* connect(), lines 105-119: recv() or send() raises ConnectionClosed.     *)
(* kind: "ok_remote" ConnectionClosedOK with rcvd_then_sent, "ok_local"    *)
(* ConnectionClosedOK without it, "error" any other ConnectionClosed.      *)
(* The entry websocket.send was writing is lost.                           *)
(***************************************************************************)
\* Mutant of PumpClosed: every clean close ends connect(), whoever began it
PumpClosedAnyOk(kind) ==
    /\ pc \in {"recv", "send"}
    /\ _ws \in {"open", "closing"}
    /\ kind = "ok_local" => _ws = "closing"
    /\ writing' = <<>>
    /\ send_open' = FALSE
    /\ connected' = FALSE
    /\ cancel_requested' = TaskCancel(_ping_task)
    /\ _ping_task' = 0
    /\ pc' = IF kind \in {"ok_local", "ok_remote"} THEN "done" ELSE "connecting"
    /\ _ws' = "closed"
    /\ UNCHANGED <<connNo, reconnect, _send_queue, _recv_dict, fut, _topics,
                   monitors, calls, sent, closeCalled>>
    /\ UNCHANGED schedVars

PumpClosed(kind) ==
    /\ pc \in {"recv", "send"}
    /\ _ws \in {"open", "closing"}
    /\ kind = "ok_local" => _ws = "closing"
    /\ writing' = <<>>
    /\ send_open' = FALSE
    /\ connected' = FALSE
    /\ cancel_requested' = TaskCancel(_ping_task)
    /\ _ping_task' = 0
    /\ pc' = IF kind = "ok_local" THEN "done" ELSE "connecting"
    /\ _ws' = "closed"
    /\ UNCHANGED <<connNo, reconnect, _send_queue, _recv_dict, fut, _topics,
                   monitors, calls, sent, closeCalled>>
    /\ UNCHANGED schedVars

(***************************************************************************)
(* Websocket.close, lines 124-129, up to the await of line 129.             *)
(***************************************************************************)
close ==
    /\ closeCalled' = TRUE
    /\ connected' = FALSE
    /\ cancel_requested' = TaskCancel(_ping_task)
    /\ _ws' = IF _ws = "open" THEN "closing" ELSE _ws
    /\ UNCHANGED <<pc, connNo, reconnect, _send_queue, _recv_dict, fut, _topics,
                   _ping_task, monitors, calls, sent, writing, send_open>>

\* Websocket.close called by anyone, whenever and however often
Close == close /\ UNCHANGED schedVars

(***************************************************************************)
(* Websocket._ping_loop, lines 131-142, for the task of connection m.      *)
(***************************************************************************)
PingLoop(m) ==
    /\ monitors[m] \in {"start", "woken", "sleep"}
    /\ m \notin cancel_requested
    /\ IF monitors[m] = "start" /\ ~connected
       THEN \* line 132 suspends in connected.wait()
            /\ monitors' = [monitors EXCEPT ![m] = "waitconn"]
            /\ UNCHANGED <<_send_queue, _recv_dict, fut>>
       ELSE IF connected
       THEN \* line 134-136: send a PING and wait for its future
            /\ send(PingOwner(m), PingMessage)
            /\ monitors' = [monitors EXCEPT ![m] = "await"]
       ELSE \* line 134: the loop ends
            /\ monitors' = [monitors EXCEPT ![m] = "done"]
            /\ UNCHANGED <<_send_queue, _recv_dict, fut>>
    /\ UNCHANGED <<pc, connNo, _ws, connected, reconnect, _topics, _ping_task,
                   calls, sent, closeCalled, writing, send_open,
                   cancel_requested>>
    /\ UNCHANGED schedVars

\* line 136 returns: the future was resolved; line 142 sleeps
PingPong(m) ==
    /\ monitors[m] = "await"
    /\ m \notin cancel_requested
    /\ fut[PingOwner(m)].st = "result"
    /\ monitors' = [monitors EXCEPT ![m] = "sleep"]
    /\ UNCHANGED <<pc, connNo, _ws, connected, reconnect, _send_queue,
                   _recv_dict, fut, _topics, _ping_task, calls, sent,
                   closeCalled, writing, send_open, cancel_requested>>
    /\ UNCHANGED schedVars

\* line 136: the 10 s of wait_for pass with the future still pending;
\* wait_for cancels the future and waits for the cancellation to take effect
PingTimeout(m) ==
    /\ monitors[m] = "await"
    /\ m \notin cancel_requested
    /\ fut[PingOwner(m)].st = "pending"
    /\ fut' = [fut EXCEPT ![PingOwner(m)] = Cancelled]
    /\ monitors' = [monitors EXCEPT ![m] = "timedout"]
    /\ UNCHANGED <<pc, connNo, _ws, connected, reconnect, _send_queue,
                   _recv_dict, _topics, _ping_task, calls, sent, closeCalled,
                   writing, send_open, cancel_requested>>
    /\ UNCHANGED schedVars

\* Mutant of PingTimeoutRaised: the monitor stops without setting reconnect
PingTimeoutNoSignal(m) ==
    /\ monitors[m] = "timedout"
    /\ m \notin cancel_requested
    /\ monitors' = [monitors EXCEPT ![m] = "done"]
    /\ UNCHANGED <<pc, connNo, _ws, connected, reconnect, _send_queue,
                   _recv_dict, fut, _topics, _ping_task, calls, sent,
                   closeCalled, writing, send_open, cancel_requested>>
    /\ UNCHANGED schedVars

\* lines 137-141: wait_for raises TimeoutError; reconnect is set, the loop ends
PingTimeoutRaised(m) ==
    /\ monitors[m] = "timedout"
    /\ m \notin cancel_requested
    /\ reconnect' = TRUE
    /\ monitors' = [monitors EXCEPT ![m] = "done"]
    /\ UNCHANGED <<pc, connNo, _ws, connected, _send_queue, _recv_dict, fut,
                   _topics, _ping_task, calls, sent, closeCalled,
                   writing, send_open, cancel_requested>>
    /\ UNCHANGED schedVars

(***************************************************************************)
(* The cancellation requested by lines 108 and 127 reaches the task m.     *)
(* Suspended in wait_for (line 136), the task gets the CancelledError      *)
(* inside asyncio.wait_for: if the awaited future has its result by then,  *)
(* wait_for returns it and the cancellation is lost, and the task goes on  *)
(* to the sleep of line 142; otherwise wait_for cancels the future, waits  *)
(* for it and raises.  Anywhere else the task ends cancelled.              *)
(***************************************************************************)
PingCancelled(m) ==
    /\ m \in cancel_requested
    /\ cancel_requested' = cancel_requested \ {m}
    /\ IF monitors[m] = "await" /\ fut[PingOwner(m)].st = "result"
       THEN /\ monitors' = [monitors EXCEPT ![m] = "sleep"]
            /\ fut' = fut
       ELSE IF monitors[m] = "await" /\ fut[PingOwner(m)].st = "pending"
       THEN /\ monitors' = [monitors EXCEPT ![m] = "cancelling"]
            /\ fut' = [fut EXCEPT ![PingOwner(m)] = Cancelled]
       ELSE /\ monitors' = [monitors EXCEPT ![m] = "cancelled"]
            /\ fut' = fut
    /\ UNCHANGED <<pc, connNo, _ws, connected, reconnect, _send_queue,
                   _recv_dict, _topics, _ping_task, calls, sent, closeCalled,
                   writing, send_open>>
    /\ UNCHANGED schedVars

\* wait_for has cancelled the future and waited for it: the CancelledError
\* is raised out of line 136 and the task ends
PingCancelRaised(m) ==
    /\ monitors[m] = "cancelling"
    /\ m \notin cancel_requested
    /\ monitors' = [monitors EXCEPT ![m] = "cancelled"]
    /\ UNCHANGED <<pc, connNo, _ws, connected, reconnect, _send_queue,
                   _recv_dict, fut, _topics, _ping_task, calls, sent,
                   closeCalled, writing, send_open, cancel_requested>>
    /\ UNCHANGED schedVars

(***************************************************************************)
(* Websocket.add_topics, lines 160-184, invocation c with the topics of    *)
(* `keys`, each carrying the handler of this invocation.                   *)
(***************************************************************************)
add_topics(c, keys) ==
    /\ calls[c].st = "new"
    /\ \A b \in Calls : b < c => calls[b].st # "new"
    /\ LET topics == DifferenceUpdate({WebsocketTopic(k, c) : k \in keys}, _topics)
       IN  IF topics = {}
           THEN \* line 164-166
                /\ calls' = [calls EXCEPT ![c] = [st |-> "returned", topics |-> {}]]
                /\ UNCHANGED <<_topics, _send_queue, _recv_dict, fut>>
           ELSE /\ _topics' = _topics \cup topics
                /\ IF Cardinality(_topics') >= TopicCeiling
                   THEN \* line 170
                        /\ calls' = [calls EXCEPT ![c] = [st |-> "raised", topics |-> topics]]
                        /\ UNCHANGED <<_send_queue, _recv_dict, fut>>
                   ELSE IF connected
                   THEN \* line 171 does not suspend; lines 172-184
                        /\ send(CallOwner(c), ListenMessage(TopicIds(topics)))
                        /\ calls' = [calls EXCEPT ![c] = [st |-> "await", topics |-> topics]]
                   ELSE /\ calls' = [calls EXCEPT ![c] = [st |-> "waitconn", topics |-> topics]]
                        /\ UNCHANGED <<_send_queue, _recv_dict, fut>>
    /\ UNCHANGED <<pc, connNo, _ws, connected, reconnect, _ping_task, monitors,
                   sent, closeCalled, writing, send_open, cancel_requested>>

\* add_topics called by a task that stands outside the model, or by the
\* task of line 43
AddTopics(c, keys) == add_topics(c, keys) /\ UNCHANGED schedVars

\* lines 171-184 after connected.wait() has returned
AddTopicsResume(c) ==
    /\ calls[c].st = "woken"
    /\ send(CallOwner(c), ListenMessage(TopicIds(calls[c].topics)))
    /\ calls' = [calls EXCEPT ![c].st = "await"]
    /\ UNCHANGED <<pc, connNo, _ws, connected, reconnect, _topics, _ping_task,
                   monitors, sent, closeCalled, writing, send_open,
                   cancel_requested>>
    /\ UNCHANGED schedVars

\* line 176: the awaited future is resolved, add_topics returns
AddTopicsReturn(c) ==
    /\ calls[c].st = "await"
    /\ fut[CallOwner(c)].st = "result"
    /\ calls' = [calls EXCEPT ![c].st = "returned"]
    /\ UNCHANGED <<pc, connNo, _ws, connected, reconnect, _send_queue,
                   _recv_dict, fut, _topics, _ping_task, monitors, sent,
                   closeCalled, writing, send_open, cancel_requested>>
    /\ UNCHANGED schedVars

Next ==
    \/ Connect
    \/ \E raw \in (RawMessages \ Dispatched) \cup {Timeout} : PumpRecv(raw, "returns")
    \/ \E raw \in DispatchedAll, handler \in Handlers : PumpRecv(raw, handler)
    \/ \E handler_ok \in BOOLEAN : HandlerReturns(handler_ok)
    \/ PumpSend
    \/ \E kind \in {"ok_remote", "ok_local", "error"} : PumpClosed(kind)
    \/ Close
    \/ \E m \in Conns : PingLoop(m) \/ PingPong(m)
    \/ \E m \in Conns : PingTimeout(m) \/ PingTimeoutRaised(m)
    \/ \E m \in Conns : PingCancelled(m) \/ PingCancelRaised(m)
    \/ \E c \in Calls, keys \in Batches(MaxLo, MaxKeyAll) : AddTopics(c, keys)
    \/ \E c \in Calls : AddTopicsResume(c) \/ AddTopicsReturn(c)

Spec == Init /\ [][Next]_vars

(***************************************************************************)
(* The topic specification: the same client, every task of it and every    *)
(* frame, with callers that use the topic keys 1..MaxKey and a server that *)
(* pushes MESSAGE frames for the keys 0..MaxKey.  The reconnect loop makes *)
(* MaxConnLow connections.                                                 *)
(***************************************************************************)
NextTopics ==
    \/ connNo < MaxConnLow /\ Connect
    \/ \E raw \in (RawMessages \ Dispatched) \cup {Timeout} : PumpRecv(raw, "returns")
    \/ \E raw \in Dispatched, handler \in Handlers : PumpRecv(raw, handler)
    \/ \E handler_ok \in BOOLEAN : HandlerReturns(handler_ok)
    \/ PumpSend
    \/ \E kind \in {"ok_remote", "ok_local", "error"} : PumpClosed(kind)
    \/ Close
    \/ \E m \in Conns : PingLoop(m) \/ PingPong(m)
    \/ \E m \in Conns : PingTimeout(m) \/ PingTimeoutRaised(m)
    \/ \E m \in Conns : PingCancelled(m) \/ PingCancelRaised(m)
    \/ \E c \in Calls, keys \in Batches(MaxLo, MaxKey) : AddTopics(c, keys)
    \/ \E c \in Calls : AddTopicsResume(c) \/ AddTopicsReturn(c)

SpecTopics == Init /\ [][NextTopics]_vars

(***************************************************************************)
(* The capacity specification: the same client, every task of it, called   *)
(* with batches of MinTopic to MaxTopic topics.  The server answers        *)
(* heartbeats and requests and may drop the connection; it pushes no       *)
(* MESSAGE, no RECONNECT and nothing the client cannot decode.             *)
(***************************************************************************)
CapBatches == {1..hi : hi \in MinTopic..MaxTopic}

CapFrames ==
    {[type |-> "PONG"]}
    \cup {[type |-> "RESPONSE", nonce |-> create_nonce(c)] : c \in Calls}

NextCap ==
    \/ Connect
    \/ \E f \in CapFrames : PumpRecv(json_dumps(f), "returns")
    \/ PumpRecv(Timeout, "returns")
    \/ PumpSend
    \/ \E kind \in {"ok_local", "error"} : PumpClosed(kind)
    \/ Close
    \/ \E m \in Conns : PingLoop(m) \/ PingPong(m)
    \/ \E m \in Conns : PingTimeout(m) \/ PingTimeoutRaised(m)
    \/ \E m \in Conns : PingCancelled(m) \/ PingCancelRaised(m)
    \/ \E c \in Calls, keys \in CapBatches : AddTopics(c, keys)
    \/ \E c \in Calls : AddTopicsResume(c) \/ AddTopicsReturn(c)

SpecCap == Init /\ [][NextCap]_vars

(***************************************************************************)
(* The server answers a LISTEN frame: the RESPONSE to the request of an    *)
(* add_topics invocation, on the connection the request was written to.    *)
(***************************************************************************)
ListenResponse(c) == [type |-> "RESPONSE", nonce |-> create_nonce(c)]

\* The server has received the LISTEN of invocation c on the current
\* connection and its RESPONSE is the next frame recv() returns.  The slot
\* of a LISTEN leaves the pending map only by its RESPONSE, so a slot still
\* there means the answer is still to come.
ServerAnswers(c) ==
    /\ \E f \in sent : f.type = "LISTEN" /\ f.nonce = create_nonce(c)
    /\ create_nonce(c) \in DOMAIN _recv_dict
    /\ PumpRecv(json_dumps(ListenResponse(c)), "returns")

(***************************************************************************)
(* The client under the fairness its event loop and a server that answers  *)
(* give: connections keep being established, recv() returns (with a PONG,  *)
(* with the answer to a LISTEN, or after its 0.5 s), a write to the        *)
(* connection completes, a handler the pump awaits returns or raises,      *)
(* every LISTEN the server has received is answered, and a task that can   *)
(* run is run.  What else the server sends, whether it drops the           *)
(* connection and whether close() is called is left open.                  *)
(***************************************************************************)
FairListen ==
    /\ Spec
    /\ WF_vars(Connect)
    /\ WF_vars(\/ PumpRecv(Timeout, "returns")
               \/ PumpRecv(json_dumps([type |-> "PONG"]), "returns")
               \/ \E c \in Calls : ServerAnswers(c))
    /\ WF_vars(PumpSend)
    /\ WF_vars(\E handler_ok \in BOOLEAN : HandlerReturns(handler_ok))
    /\ \A m \in Conns :
          /\ WF_vars(PingLoop(m))
          /\ WF_vars(PingPong(m) \/ PingTimeout(m))
          /\ WF_vars(PingTimeoutRaised(m))
          /\ WF_vars(PingCancelled(m))
          /\ WF_vars(PingCancelRaised(m))
    /\ \A c \in Calls :
          /\ SF_vars(ServerAnswers(c))
          /\ WF_vars(AddTopicsResume(c))
          /\ WF_vars(AddTopicsReturn(c))

(***************************************************************************)
(* Twitch (twitch.py).  Channel is defined outside the files modelled      *)
(* here: a channel is its id, channel.stream is NoStream or a stream with  *)
(* the two attributes run() reads, and a request for the stream of a       *)
(* channel (Channel(), get_stream, check_online) answers with any of them  *)
(* or fails.                                                               *)
(***************************************************************************)
ChannelIds == 1..MaxChannels
ChannelIdsLow == 1..MaxChannelsLow
GameNames == 1..MaxGames
Closers == 1..MaxCloses
Stream(drops_enabled, game) ==
    [online |-> TRUE, drops_enabled |-> drops_enabled, game |-> game]
Streams == {NoStream} \cup {Stream(d, g) : d \in BOOLEAN, g \in GameNames}

\* Channel.set_offline
set_offline(id) == [stream EXCEPT ![id] = NoStream]
\* Channel.get_stream and Channel.check_online: the stream the server reports
get_stream(id, reported) == [stream EXCEPT ![id] = reported]

Range(seq) == {seq[i] : i \in DOMAIN seq}

\* Twitch.close() has been called
twitchClosed == \E k \in Closers : closer[k] # "none"

\* websocket.py, lines 43-48: the two topics of the user, subscribed by the
\* task connect() creates, which is the first add_topics invocation; the
\* call of run() (twitch.py, line 115) is the second
UserKeys == {1, 2}
ConnectCall == 1
RunCall == 2

\* run(), lines 111-113: the key of the VideoPlayback topic of a channel
ChannelKey(id) == Cardinality(UserKeys) + id

\* The MESSAGE frame that tells a change of the stream of a channel
StreamMessage(id, msg_type) ==
    [type |-> "MESSAGE",
     data |-> [topic |-> ChannelKey(id),
               message |-> json_dumps([type |-> msg_type])]]

\* run(), lines 124-128
Eligible(id) ==
    /\ stream[id] # NoStream
    /\ stream[id].drops_enabled
    /\ stream[id].game \in games

\* run(), lines 123-132, were the for loop to keep the last eligible channel
RECURSIVE ScanLast(_)
ScanLast(i) ==
    IF i > Len(channels) THEN 0
    ELSE IF ScanLast(i + 1) # 0 THEN ScanLast(i + 1)
    ELSE IF Eligible(channels[i]) THEN i
    ELSE 0

\* run(), lines 123-132: the index in self.channels.values() of the channel
\* the for loop breaks at, from index i on; 0 when the loop runs to its end
RECURSIVE ScanFrom(_)
ScanFrom(i) ==
    IF i > Len(channels) THEN 0
    ELSE IF Eligible(channels[i]) THEN i
    ELSE ScanFrom(i + 1)

\* A watcher task: `at` is the await it is suspended at ("start" before its
\* first step, "end" once it will run no more of its code), i the counter
\* of line 155, and k the number of passes of the loop of line 156 the task
\* has completed
WatcherTask(channel, st, at, i, k) ==
    [channel |-> channel, st |-> st, at |-> at, i |-> i, k |-> k]

\* Task.cancel() on a watcher task: the cancellation of a task that has not
\* ended is requested and reaches the task when the event loop next runs
\* it; a finished task stays as it is
Cancel(ws, t) ==
    IF t # 0 /\ ws[t].st = "running"
    THEN [ws EXCEPT ![t] = WatcherTask(ws[t].channel, "cancelling", "end", 0, 0)]
    ELSE ws

\* Mutant of watch: the task of the previous channel is not cancelled
watch_without_cancel(channel) ==
    /\ watchers' = Append(watchers, WatcherTask(channel, "running", "start", 0, 0))
    /\ _watching_channel' = channel
    /\ _watching_task' = Len(watchers) + 1

\* Twitch.watch, lines 147-173
watch(channel) ==
    /\ watchers' = Append(Cancel(watchers, _watching_task),
                          WatcherTask(channel, "running", "start", 0, 0))
    /\ _watching_channel' = channel
    /\ _watching_task' = Len(watchers) + 1

\* Twitch.stop_watching, lines 175-180
stop_watching ==
    /\ watchers' = Cancel(watchers, _watching_task)
    /\ _watching_task' = 0
    /\ _watching_channel' = 0

(***************************************************************************)
(* The inventory (defined outside the files modelled here): a list of      *)
(* campaigns, each with a status, a game and its timed drops in the order  *)
(* of campaign.timed_drops.values(); a drop is the two attributes run()    *)
(* reads, with the values they have when get_inventory() answers.          *)
(***************************************************************************)
TimedDrops ==
    UNION {[1..n -> [can_earn : BOOLEAN, can_claim : BOOLEAN]] : n \in 0..MaxDrops}
Campaigns ==
    [status : {"ACTIVE", "UPCOMING"}, game : GameNames, timed_drops : TimedDrops]
Inventories == UNION {[1..n -> Campaigns] : n \in 0..MaxCampaigns}

\* run(), lines 94-98: the drops the two for loops visit, in their order, each
\* with the game of its campaign; an UPCOMING campaign is passed over
RECURSIVE DropsOf(_)
DropsOf(inventory) ==
    IF inventory = <<>> THEN <<>>
    ELSE LET campaign == Head(inventory)
             visited == IF campaign.status = "UPCOMING" THEN <<>>
                        ELSE [i \in DOMAIN campaign.timed_drops |->
                                 [game |-> campaign.game,
                                  can_earn |-> campaign.timed_drops[i].can_earn,
                                  can_claim |-> campaign.timed_drops[i].can_claim]]
         IN visited \o DropsOf(Tail(inventory))

\* run(), lines 98-102, from the next drop on: the loops run until a drop can
\* be claimed, where run() suspends in drop.claim() (line 102), or until no
\* drop is left.  `earnable` is the local `games` so far.
RECURSIVE DropLoop(_, _)
DropLoop(earnable, drops) ==
    IF drops = <<>> THEN [games |-> earnable, drops_left |-> <<>>, claiming |-> FALSE]
    ELSE LET drop == Head(drops)
             added == IF drop.can_earn THEN earnable \cup {drop.game} ELSE earnable
         IN IF drop.can_claim
            THEN [games |-> added, drops_left |-> Tail(drops), claiming |-> TRUE]
            ELSE DropLoop(added, Tail(drops))

\* run(), lines 92-102: get_inventory() answers; games = set() and the loops
\* run to the first drop.claim(), or to line 104
RunInventory(inventory) ==
    /\ rpc = "start"
    /\ LET loop == DropLoop({}, DropsOf(inventory))
       IN /\ games' = loop.games
          /\ drops_left' = loop.drops_left
          /\ rpc' = IF loop.claiming THEN "claim" ELSE "register"
    /\ UNCHANGED <<channels, stream, _watching_channel, _watching_task, watchers,
                   _channel_change, refresh_channels, refresh_at, online_delay,
                   checking, closer>>
    /\ UNCHANGED wsVars

\* run(), line 92: the request of get_inventory() fails and run() ends with it
RunInventoryFails ==
    /\ rpc = "start"
    /\ rpc' = "dead"
    /\ UNCHANGED <<channels, stream, games, drops_left, _watching_channel,
                   _watching_task, watchers, _channel_change, refresh_channels,
                   refresh_at, online_delay, checking, closer>>
    /\ UNCHANGED wsVars

\* run(), lines 102 and 98-102: drop.claim() answers and the loops go on with
\* the drops that are left, to the next drop.claim() or to line 104
RunClaim ==
    /\ rpc = "claim"
    /\ LET loop == DropLoop(games, drops_left)
       IN /\ games' = loop.games
          /\ drops_left' = loop.drops_left
          /\ rpc' = IF loop.claiming THEN "claim" ELSE "register"
    /\ UNCHANGED <<channels, stream, _watching_channel, _watching_task,
                   watchers, _channel_change, refresh_channels, refresh_at,
                   online_delay, checking, closer>>
    /\ UNCHANGED wsVars

\* run(), line 102: the request of drop.claim() fails and run() ends with it,
\* its loops and the drops they had left with it
RunClaimFails ==
    /\ rpc = "claim"
    /\ rpc' = "dead"
    /\ drops_left' = <<>>
    /\ UNCHANGED <<channels, stream, games, _watching_channel, _watching_task,
                   watchers, _channel_change, refresh_channels, refresh_at,
                   online_delay, checking, closer>>
    /\ UNCHANGED wsVars

\* run(), lines 104-106: Channel() of the next name answers;
\* self.channels[channel.id] = channel, a dict that keeps the place of a key
\* it already has
RunRegister(id, reported) ==
    /\ rpc = "register"
    /\ channels' = IF id \in Range(channels) THEN channels ELSE Append(channels, id)
    /\ stream' = [c \in DOMAIN stream \cup {id} |->
                     IF c = id THEN reported ELSE stream[c]]
    /\ UNCHANGED <<rpc, games, drops_left, _watching_channel, _watching_task,
                   watchers, _channel_change, refresh_channels, refresh_at,
                   online_delay, checking, closer>>
    /\ UNCHANGED wsVars

\* run(), line 105: the request of Channel() fails and run() ends with it
RunRegisterFails ==
    /\ rpc = "register"
    /\ rpc' = "dead"
    /\ UNCHANGED <<channels, stream, games, drops_left, _watching_channel,
                   _watching_task, watchers, _channel_change, refresh_channels,
                   refresh_at, online_delay, checking, closer>>
    /\ UNCHANGED wsVars

\* run(), lines 107-115: every name has its channel; run() calls add_topics
\* with the topic of every channel and runs in it to its first await.  (Up
\* to MaxChannels topics are too few for add_topics to raise at line 170.)
RunSubscribe ==
    /\ rpc = "register"
    /\ add_topics(RunCall, {ChannelKey(id) : id \in Range(channels)})
    /\ rpc' = "subscribe"
    /\ UNCHANGED <<channels, stream, games, drops_left, _watching_channel,
                   _watching_task, watchers, _channel_change, refresh_channels,
                   refresh_at, online_delay, checking, closer>>

\* run(), lines 115-122, were _channel_change.set() of line 118 left out
RunSubscribedNoSignal ==
    /\ rpc = "subscribe"
    /\ calls[RunCall].st = "returned"
    /\ refresh_channels' = FALSE
    /\ rpc' = "wait"
    /\ UNCHANGED <<channels, stream, games, drops_left, _watching_channel,
                   _watching_task, watchers, _channel_change, refresh_at,
                   online_delay, checking, closer>>
    /\ UNCHANGED wsVars

\* run(), lines 115-122: add_topics has returned
RunSubscribed ==
    /\ rpc = "subscribe"
    /\ calls[RunCall].st = "returned"
    /\ _channel_change' = TRUE
    /\ refresh_channels' = FALSE
    /\ rpc' = "wait"
    /\ UNCHANGED <<channels, stream, games, drops_left, _watching_channel,
                   _watching_task, watchers, refresh_at, online_delay, checking,
                   closer>>
    /\ UNCHANGED wsVars

\* run(), lines 120-145: one pass of the loop, from _channel_change.wait()
\* returning to the next await
RunScan ==
    /\ rpc = "wait"
    /\ _channel_change
    /\ LET found == ScanFrom(1)
       IN  IF found # 0
           THEN /\ Len(watchers) < MaxRunWatchers
                /\ watch(channels[found])
                /\ refresh_channels' = TRUE
                /\ _channel_change' = FALSE
                /\ UNCHANGED <<rpc, refresh_at>>
           ELSE IF refresh_channels /\ channels # <<>>
           THEN /\ rpc' = "refresh"
                /\ refresh_at' = 1
                /\ UNCHANGED <<_watching_channel, _watching_task, watchers,
                               refresh_channels, _channel_change>>
           ELSE IF refresh_channels
           THEN /\ refresh_channels' = FALSE
                /\ UNCHANGED <<rpc, refresh_at, _watching_channel, _watching_task,
                               watchers, _channel_change>>
           ELSE /\ rpc' = "sleep"
                /\ UNCHANGED <<refresh_at, _watching_channel, _watching_task,
                               watchers, refresh_channels, _channel_change>>
    /\ UNCHANGED <<channels, stream, games, drops_left, online_delay, checking,
                   closer>>
    /\ UNCHANGED wsVars

\* run(), line 140: get_stream() of the channel the pass has come to
\* answers; run() suspends in the sleep of line 141
RunRefresh(reported) ==
    /\ rpc = "refresh"
    /\ stream' = get_stream(channels[refresh_at], reported)
    /\ rpc' = "refresh_sleep"
    /\ UNCHANGED <<channels, games, drops_left, _watching_channel, _watching_task,
                   watchers, _channel_change, refresh_channels, refresh_at,
                   online_delay, checking, closer>>
    /\ UNCHANGED wsVars

\* run(), line 140: the request of get_stream() fails and run() ends with it
RunRefreshFails ==
    /\ rpc = "refresh"
    /\ rpc' = "dead"
    /\ refresh_at' = 0
    /\ UNCHANGED <<channels, stream, games, drops_left, _watching_channel,
                   _watching_task, watchers, _channel_change, refresh_channels,
                   online_delay, checking, closer>>
    /\ UNCHANGED wsVars

\* Mutant of RunRefreshSlept: line 142 (refresh_channels = False) left out
RunRefreshNoReset ==
    /\ rpc = "refresh_sleep"
    /\ IF refresh_at < Len(channels)
       THEN /\ refresh_at' = refresh_at + 1
            /\ rpc' = "refresh"
            /\ UNCHANGED refresh_channels
       ELSE /\ refresh_at' = 0
            /\ rpc' = "wait"
            /\ UNCHANGED refresh_channels
    /\ UNCHANGED <<channels, stream, games, drops_left, _watching_channel,
                   _watching_task, watchers, _channel_change, online_delay,
                   checking, closer>>
    /\ UNCHANGED wsVars

\* run(), lines 141-143 and 139-140: the half second is over; run() asks
\* for the stream of the next channel, or the pass is complete
RunRefreshSlept ==
    /\ rpc = "refresh_sleep"
    /\ IF refresh_at < Len(channels)
       THEN /\ refresh_at' = refresh_at + 1
            /\ rpc' = "refresh"
            /\ UNCHANGED refresh_channels
       ELSE /\ refresh_at' = 0
            /\ refresh_channels' = FALSE
            /\ rpc' = "wait"
    /\ UNCHANGED <<channels, stream, games, drops_left, _watching_channel,
                   _watching_task, watchers, _channel_change, online_delay,
                   checking, closer>>
    /\ UNCHANGED wsVars

\* run(), line 145: the 120 s are over
RunWake ==
    /\ rpc = "sleep"
    /\ rpc' = "wait"
    /\ UNCHANGED <<channels, stream, games, drops_left, _watching_channel,
                   _watching_task, watchers, _channel_change, refresh_channels,
                   refresh_at, online_delay, checking, closer>>
    /\ UNCHANGED wsVars

(***************************************************************************)
(* Twitch.process_stream_state, lines 182-213: the pump receives a MESSAGE *)
(* for the topic of a channel and calls the handler of the topic (line 87  *)
(* of websocket.py).  The handler returns at once and the pump runs on to  *)
(* its next await, or (a view count for a channel that is offline) it      *)
(* suspends in check_online(), and the pump with it.                       *)
(***************************************************************************)
ProcessStreamState(channel_id, msg_type) ==
    /\ channel_id \in Range(channels)
    /\ \E t \in _topics : TopicEqStr(t, ChannelKey(channel_id))
    /\ LET suspends == msg_type = "viewcount" /\ stream[channel_id] = NoStream
       IN  /\ recv(json_dumps(StreamMessage(channel_id, msg_type)),
                   IF suspends THEN "awaits" ELSE "returns")
           /\ checking' = IF suspends THEN channel_id ELSE 0
    /\ CASE msg_type = "stream-down" ->
              /\ stream' = set_offline(channel_id)
              /\ _channel_change' =
                    IF _watching_channel # 0 /\ _watching_channel = channel_id
                    THEN TRUE ELSE _channel_change
              /\ UNCHANGED online_delay
         [] msg_type = "stream-up" ->
              /\ BagCardinality(online_delay) < MaxDelays
              /\ online_delay' = online_delay (+) SetToBag({<<channel_id, "sleep">>})
              /\ UNCHANGED <<stream, _channel_change>>
         [] msg_type = "viewcount" ->
              UNCHANGED <<stream, online_delay, _channel_change>>
    /\ UNCHANGED <<rpc, channels, games, drops_left, _watching_channel,
                   _watching_task, watchers, refresh_channels, refresh_at,
                   closer>>

\* line 207: check_online() answers, the handler returns (lines 208-213) and
\* the pump runs on to its next await
ViewcountChecked(reported) ==
    /\ checking # 0
    /\ stream' = get_stream(checking, reported)
    /\ checking' = 0
    /\ handler_returns(TRUE)
    /\ UNCHANGED <<rpc, channels, games, drops_left, _watching_channel,
                   _watching_task, watchers, _channel_change, refresh_channels,
                   refresh_at, online_delay, closer>>

\* line 207: the request of check_online() fails; the exception leaves the
\* handler and is caught by the pump at line 120 of websocket.py
ViewcountCheckFails ==
    /\ checking # 0
    /\ checking' = 0
    /\ handler_returns(FALSE)
    /\ UNCHANGED <<rpc, channels, stream, games, drops_left, _watching_channel,
                   _watching_task, watchers, _channel_change, refresh_channels,
                   refresh_at, online_delay, closer>>

\* online_delay, line 200: the ten seconds of a task are over and it
\* suspends in check_online()
OnlineDelaySlept(channel_id) ==
    /\ BagIn(<<channel_id, "sleep">>, online_delay)
    /\ online_delay' = (online_delay (-) SetToBag({<<channel_id, "sleep">>}))
                           (+) SetToBag({<<channel_id, "check">>})
    /\ UNCHANGED <<rpc, channels, stream, games, drops_left, _watching_channel,
                   _watching_task, watchers, _channel_change, refresh_channels,
                   refresh_at, checking, closer>>
    /\ UNCHANGED wsVars

\* online_delay, line 201: check_online() answers and the task ends
OnlineDelay(channel_id, reported) ==
    /\ BagIn(<<channel_id, "check">>, online_delay)
    /\ online_delay' = online_delay (-) SetToBag({<<channel_id, "check">>})
    /\ stream' = get_stream(channel_id, reported)
    /\ UNCHANGED <<rpc, channels, games, drops_left, _watching_channel,
                   _watching_task, watchers, _channel_change, refresh_channels,
                   refresh_at, checking, closer>>
    /\ UNCHANGED wsVars

\* online_delay, line 201: the request of check_online() fails and the task
\* ends with it
OnlineDelayFails(channel_id) ==
    /\ BagIn(<<channel_id, "check">>, online_delay)
    /\ online_delay' = online_delay (-) SetToBag({<<channel_id, "check">>})
    /\ UNCHANGED <<rpc, channels, stream, games, drops_left, _watching_channel,
                   _watching_task, watchers, _channel_change, refresh_channels,
                   refresh_at, checking, closer>>
    /\ UNCHANGED wsVars

(***************************************************************************)
(* Twitch.close, lines 68-74, call k.                                      *)
(***************************************************************************)
\* lines 69-72: stop_watching(), and the call suspends in session.close()
TwitchClose(k) ==
    /\ closer[k] = "none"
    /\ \A j \in Closers : j < k => closer[j] # "none"
    /\ closer' = [closer EXCEPT ![k] = "session"]
    /\ stop_watching
    /\ UNCHANGED <<rpc, channels, stream, games, drops_left, _channel_change,
                   refresh_channels, refresh_at, online_delay, checking>>
    /\ UNCHANGED wsVars

\* line 73: the session is closed; Websocket.close() runs to its await of
\* line 129 or, with no connection made yet, returns, and line 74 sleeps
TwitchCloseSession(k) ==
    /\ closer[k] = "session"
    /\ close
    /\ closer' = [closer EXCEPT ![k] = IF _ws = "none" THEN "sleep" ELSE "websocket"]
    /\ UNCHANGED <<rpc, channels, stream, games, drops_left, _watching_channel,
                   _watching_task, watchers, _channel_change, refresh_channels,
                   refresh_at, online_delay, checking>>

\* websocket.py line 129: the closing of the connection is over;
\* Twitch.close() goes on to the sleep of line 74
TwitchCloseWebsocket(k) ==
    /\ closer[k] = "websocket"
    /\ closer' = [closer EXCEPT ![k] = "sleep"]
    /\ UNCHANGED <<rpc, channels, stream, games, drops_left, _watching_channel,
                   _watching_task, watchers, _channel_change, refresh_channels,
                   refresh_at, online_delay, checking>>
    /\ UNCHANGED wsVars

\* line 74: the second is over and close() returns
TwitchCloseSlept(k) ==
    /\ closer[k] = "sleep"
    /\ closer' = [closer EXCEPT ![k] = "done"]
    /\ UNCHANGED <<rpc, channels, stream, games, drops_left, _watching_channel,
                   _watching_task, watchers, _channel_change, refresh_channels,
                   refresh_at, online_delay, checking>>
    /\ UNCHANGED wsVars

\* Mutant of NextTick: the counter of the watcher never wraps
NextTickNoWrap(i) == i + 1

\* watcher, line 168
NextTick(i) == (i + 1) % BonusEvery

(***************************************************************************)
(* watcher, lines 151-169: task t runs from the await it is suspended at   *)
(* to its next await.  `claim_available` is what the bonus check answers.  *)
(***************************************************************************)
WatcherStep(t, claim_available) ==
    /\ t \in DOMAIN watchers
    /\ watchers[t].st = "running"
    /\ watchers[t].k < MaxTicks
    /\ LET w == watchers[t]
           ticked == WatcherTask(w.channel, "running", "sleep", NextTick(w.i), w.k + 1)
       IN  watchers' = [watchers EXCEPT ![t] =
               CASE w.at \in {"start", "sleep"} ->
                      \* line 157: await channel._send_watch()
                      WatcherTask(w.channel, "running", "send_watch", w.i, w.k)
                 [] w.at = "send_watch" ->
                      \* line 158-160, or lines 168-169
                      IF w.i = 0
                      THEN WatcherTask(w.channel, "running", "bonus", w.i, w.k)
                      ELSE ticked
                 [] w.at = "bonus" ->
                      \* lines 161-166, or lines 168-169
                      IF claim_available
                      THEN WatcherTask(w.channel, "running", "claim", w.i, w.k)
                      ELSE ticked
                 [] w.at = "claim" -> ticked]
    /\ UNCHANGED <<rpc, channels, stream, games, drops_left, _watching_channel,
                   _watching_task, _channel_change, refresh_channels, refresh_at,
                   online_delay, checking, closer>>
    /\ UNCHANGED wsVars

\* lines 157, 160, 166: the request the task waits for fails; nothing in
\* watcher catches the exception and the task ends with it
WatcherFails(t) ==
    /\ t \in DOMAIN watchers
    /\ watchers[t].st = "running"
    /\ watchers[t].at \in {"send_watch", "bonus", "claim"}
    /\ watchers' = [watchers EXCEPT ![t] =
                       WatcherTask(watchers[t].channel, "failed", "end", 0, 0)]
    /\ UNCHANGED <<rpc, channels, stream, games, drops_left, _watching_channel,
                   _watching_task, _channel_change, refresh_channels, refresh_at,
                   online_delay, checking, closer>>
    /\ UNCHANGED wsVars

\* The cancellation requested by lines 149 and 178 reaches the task t: the
\* CancelledError is raised at the await the task is suspended at (or
\* before its first step) and the task ends
WatcherCancelled(t) ==
    /\ t \in DOMAIN watchers
    /\ watchers[t].st = "cancelling"
    /\ watchers' = [watchers EXCEPT ![t].st = "cancelled"]
    /\ UNCHANGED <<rpc, channels, stream, games, drops_left, _watching_channel,
                   _watching_task, _channel_change, refresh_channels, refresh_at,
                   online_delay, checking, closer>>
    /\ UNCHANGED wsVars

\* A call of watch(channel)
CallWatch(channel) ==
    /\ Len(watchers) < MaxWatchers
    /\ watch(channel)
    /\ UNCHANGED <<rpc, channels, stream, games, drops_left, _channel_change,
                   refresh_channels, refresh_at, online_delay, checking,
                   closer>>
    /\ UNCHANGED wsVars

\* A call of stop_watching()
CallStopWatching ==
    /\ stop_watching
    /\ UNCHANGED <<rpc, channels, stream, games, drops_left, _channel_change,
                   refresh_channels, refresh_at, online_delay, checking,
                   closer>>
    /\ UNCHANGED wsVars

(***************************************************************************)
(* Engagement: Twitch.watch and Twitch.stop_watching with the watcher      *)
(* tasks they create and cancel, called in any order by callers that stand *)
(* outside the model (run() calls watch(), close() calls stop_watching()). *)
(* These two methods and the watcher tasks are all that writes             *)
(* _watching_channel, _watching_task and the tasks.                        *)
(***************************************************************************)
NextWatch ==
    \/ \E channel \in ChannelIds : CallWatch(channel)
    \/ CallStopWatching
    \/ \E t \in 1..MaxWatchers, claim_available \in BOOLEAN :
           WatcherStep(t, claim_available)
    \/ \E t \in 1..MaxWatchers : WatcherFails(t) \/ WatcherCancelled(t)

SpecWatch == Init /\ [][NextWatch]_vars

\* A watcher task takes a step of one of its first MaxRunTicks passes
WatcherTick(t, claim_available) ==
    /\ WatcherStep(t, claim_available)
    /\ watchers[t].k < MaxRunTicks

(***************************************************************************)
(* The scheduler specification: every task of the client.  run(), the      *)
(* connect() task it creates with its pump, the add_topics task and the    *)
(* heartbeat task of connect(), the handlers of the channel topics and the *)
(* watcher tasks.  The server accepts MaxConnLow connections, answers      *)
(* heartbeats or lets them time out, answers every LISTEN (that of         *)
(* connect() first), tells when a stream goes down, may send RECONNECT and *)
(* may drop the connection.  Every request of run() and of a watcher task  *)
(* answers or fails.  Nobody calls close().                                *)
(***************************************************************************)
NextSched ==
    \/ connNo < MaxConnLow /\ Connect
    \/ PumpRecv(Timeout, "returns")
    \/ PumpRecv(json_dumps([type |-> "PONG"]), "returns")
    \/ PumpRecv(json_dumps([type |-> "RECONNECT"]), "returns")
    \/ ServerAnswers(ConnectCall)
    \/ calls[ConnectCall].st = "returned" /\ ServerAnswers(RunCall)
    \/ PumpSend
    \/ \E kind \in {"ok_remote", "error"} : PumpClosed(kind)
    \/ \E m \in Conns : PingLoop(m) \/ PingPong(m)
    \/ \E m \in Conns : PingTimeout(m) \/ PingTimeoutRaised(m)
    \/ \E m \in Conns : PingCancelled(m) \/ PingCancelRaised(m)
    \/ AddTopics(ConnectCall, UserKeys)
    \/ \E c \in Calls : AddTopicsResume(c) \/ AddTopicsReturn(c)
    \/ \E inventory \in Inventories : RunInventory(inventory)
    \/ RunInventoryFails
    \/ RunClaim
    \/ RunClaimFails
    \/ \E id \in ChannelIds, reported \in Streams : RunRegister(id, reported)
    \/ RunRegisterFails
    \/ RunSubscribe
    \/ RunSubscribed
    \/ RunScan
    \/ \E reported \in Streams : RunRefresh(reported)
    \/ RunRefreshFails
    \/ RunRefreshSlept
    \/ RunWake
    \/ \E id \in ChannelIds : ProcessStreamState(id, "stream-down")
    \/ \E t \in 1..MaxRunWatchers, claim_available \in BOOLEAN :
           WatcherTick(t, claim_available)
    \/ \E t \in 1..MaxRunWatchers : WatcherFails(t) \/ WatcherCancelled(t)

SpecSched == Init /\ [][NextSched]_vars

(***************************************************************************)
(* The stream specification: every task of the client again, with          *)
(* MaxChannelsLow channels, a server that pushes every kind of MESSAGE for *)
(* the topic of a channel, a check_online() that answers or fails, and     *)
(* callers of close().                                                     *)
(***************************************************************************)
NextStream ==
    \/ connNo < MaxConnLow /\ Connect
    \/ PumpRecv(Timeout, "returns")
    \/ PumpRecv(json_dumps([type |-> "PONG"]), "returns")
    \/ ServerAnswers(ConnectCall)
    \/ calls[ConnectCall].st = "returned" /\ ServerAnswers(RunCall)
    \/ PumpSend
    \/ PumpClosed("ok_local")
    \/ \E m \in Conns : PingLoop(m) \/ PingPong(m)
    \/ \E m \in Conns : PingTimeout(m) \/ PingTimeoutRaised(m)
    \/ \E m \in Conns : PingCancelled(m) \/ PingCancelRaised(m)
    \/ AddTopics(ConnectCall, UserKeys)
    \/ \E c \in Calls : AddTopicsResume(c) \/ AddTopicsReturn(c)
    \/ \E inventory \in Inventories : RunInventory(inventory)
    \/ RunInventoryFails
    \/ RunClaim
    \/ RunClaimFails
    \/ \E id \in ChannelIdsLow, reported \in Streams : RunRegister(id, reported)
    \/ RunRegisterFails
    \/ RunSubscribe
    \/ RunSubscribed
    \/ RunScan
    \/ \E reported \in Streams : RunRefresh(reported)
    \/ RunRefreshFails
    \/ RunRefreshSlept
    \/ RunWake
    \/ \E id \in ChannelIdsLow, msg_type \in {"stream-down", "stream-up", "viewcount"} :
           ProcessStreamState(id, msg_type)
    \/ \E reported \in Streams : ViewcountChecked(reported)
    \/ ViewcountCheckFails
    \/ \E id \in ChannelIdsLow : OnlineDelaySlept(id) \/ OnlineDelayFails(id)
    \/ \E id \in ChannelIdsLow, reported \in Streams : OnlineDelay(id, reported)
    \/ \E t \in 1..MaxRunWatchers, claim_available \in BOOLEAN :
           WatcherTick(t, claim_available)
    \/ \E t \in 1..MaxRunWatchers : WatcherFails(t) \/ WatcherCancelled(t)
    \/ \E k \in Closers : TwitchClose(k) \/ TwitchCloseSession(k)
    \/ \E k \in Closers : TwitchCloseWebsocket(k) \/ TwitchCloseSlept(k)

SpecStream == Init /\ [][NextStream]_vars

(***************************************************************************)
(* The run specification: every task of the client, with MaxChannelsLow    *)
(* channels and MaxConn connections.  The server answers heartbeats or     *)
(* lets them time out, which is what makes the client reconnect, answers   *)
(* every LISTEN it has received and tells when a stream goes down.  It    *)
(* does not drop the connection and nobody calls close(), so that no       *)
(* heartbeat task is cancelled (lines 108 and 127 are not reached).        *)
(***************************************************************************)
NextRun ==
    \/ Connect
    \/ PumpRecv(Timeout, "returns")
    \/ PumpRecv(json_dumps([type |-> "PONG"]), "returns")
    \/ \E c \in Calls : ServerAnswers(c)
    \/ PumpSend
    \/ \E m \in Conns : PingLoop(m) \/ PingPong(m)
    \/ \E m \in Conns : PingTimeout(m) \/ PingTimeoutRaised(m)
    \/ AddTopics(ConnectCall, UserKeys)
    \/ \E c \in Calls : AddTopicsResume(c) \/ AddTopicsReturn(c)
    \/ \E inventory \in Inventories : RunInventory(inventory)
    \/ RunInventoryFails
    \/ RunClaim
    \/ RunClaimFails
    \/ \E id \in ChannelIdsLow, reported \in Streams : RunRegister(id, reported)
    \/ RunRegisterFails
    \/ RunSubscribe
    \/ RunSubscribed
    \/ RunScan
    \/ \E reported \in Streams : RunRefresh(reported)
    \/ RunRefreshFails
    \/ RunRefreshSlept
    \/ RunWake
    \/ \E id \in ChannelIdsLow : ProcessStreamState(id, "stream-down")
    \/ \E t \in 1..MaxRunWatchers, claim_available \in BOOLEAN :
           WatcherTick(t, claim_available)
    \/ \E t \in 1..MaxRunWatchers : WatcherFails(t) \/ WatcherCancelled(t)

SpecRun == Init /\ [][NextRun]_vars

\* The event loop runs a task that can run, a sleep ends, a request is
\* answered or fails, connections keep being established, recv() returns
\* (with a PONG, with the answer to a LISTEN, or after its 0.5 s) and the
\* server answers every LISTEN it has received.  Whether a heartbeat is
\* answered in time is left to the server.
FairRun ==
    /\ SpecRun
    /\ WF_vars(Connect)
    /\ WF_vars(\/ PumpRecv(Timeout, "returns")
               \/ PumpRecv(json_dumps([type |-> "PONG"]), "returns")
               \/ \E c \in Calls : ServerAnswers(c))
    /\ WF_vars(PumpSend)
    /\ \A m \in Conns :
          /\ WF_vars(PingLoop(m))
          /\ WF_vars(PingPong(m) \/ PingTimeout(m))
          /\ WF_vars(PingTimeoutRaised(m))
    /\ WF_vars(AddTopics(ConnectCall, UserKeys))
    /\ \A c \in Calls :
          /\ SF_vars(ServerAnswers(c))
          /\ WF_vars(AddTopicsResume(c))
          /\ WF_vars(AddTopicsReturn(c))
    /\ WF_vars(RunSubscribe)
    /\ WF_vars(RunSubscribed)
    /\ WF_vars(RunScan)
    /\ WF_vars(RunWake)
    /\ WF_vars(RunRefreshFails \/ \E reported \in Streams : RunRefresh(reported))
    /\ WF_vars(RunRefreshSlept)
    /\ \A t \in 1..MaxRunWatchers :
          /\ WF_vars(WatcherFails(t) \/ \E claim_available \in BOOLEAN :
                                            WatcherTick(t, claim_available))
          /\ WF_vars(WatcherCancelled(t))

(***************************************************************************)
(* Properties of the connection client.                                    *)
(***************************************************************************)
ReplyFrames == {f \in Frames : f.type \in {"PONG", "RESPONSE"}}
\* The MESSAGE frames, and those of them whose data.message is JSON
AnyMessageFrames == {f \in Frames : f.type = "MESSAGE"}
MessageFrames == {f \in AnyMessageFrames : Decodes(f.data.message)}

\* The token a reply frame carries, and the token of the request of a task
ReplyToken(f) == IF f.type = "PONG" THEN PING ELSE f.nonce
RequestToken(o) == IF o[1] = "ping" THEN PING ELSE create_nonce(o[2])

\* The topic keys the server was told to LISTEN to on the current connection
Announced == UNION {f.data.topics : f \in {g \in sent : g.type = "LISTEN"}}

\* No add_topics invocation is between committing its topics and handing
\* its LISTEN to send()
CallsSettled == \A c \in Calls : calls[c].st \in {"new", "await", "returned"}

\* C1: after a reconnect, once the new connection is ready and the pump has
\* nothing left to send, the topics announced on the current connection are
\* the held subscription set (a LISTEN with the held set was sent on it).
C1_ReannouncedAfterReconnect ==
    (connNo >= 2 /\ pc = "recv" /\ _ws = "open" /\ _send_queue = <<>>
        /\ CallsSettled)
    => Announced = TopicIds(_topics)

\* C2: an add_topics call that raises the capacity error leaves the held
\* set as it was, and the held set never has more members than the ceiling.
C2_CapacityErrorLeavesSetUnchanged ==
    [][/\ \A c \in Calls :
            (calls[c].st = "new" /\ calls'[c].st = "raised") => _topics' = _topics
       /\ Cardinality(_topics') <= TopicCeiling]_vars

\* C3: a reply frame carrying token t removes t from the pending map and
\* resolves, with the frame, the slot of every request with token t that is
\* still unresolved: no request keeps waiting once a reply with its token
\* has been handled.
C3_ReplyResolvesRequest ==
    [][\A f \in ReplyFrames, handler \in Handlers :
          PumpRecv(json_dumps(f), handler) =>
              /\ ReplyToken(f) \notin DOMAIN _recv_dict'
              /\ \A o \in Owners :
                    (RequestToken(o) = ReplyToken(f) /\ fut[o].st = "pending")
                    => fut'[o] = set_result(f)]_vars

\* C4: a reply frame whose token has no pending slot, or whose slot is
\* already done, resolves nothing, raises nothing out of the pump and leaves
\* the pump on the same connection.
C4_UnmatchedReplyIsNoOp ==
    [][\A f \in ReplyFrames, handler \in Handlers :
          (/\ PumpRecv(json_dumps(f), handler)
           /\ \/ ReplyToken(f) \notin DOMAIN _recv_dict
              \/ FutDone(_recv_dict[ReplyToken(f)]))
          => /\ fut' = fut
             /\ reconnect' = reconnect
             /\ ~reconnect => (pc' \in {"recv", "send"} /\ _ws' = _ws)]_vars

\* C5: a heartbeat whose PONG does not come in time (wait_for times out with
\* the future pending) makes its monitor, unless it is cancelled first, set
\* the reconnect signal and stop; with the signal set the pump does not
\* start another iteration: from recv() it goes to the handler or leaves,
\* and from the handler or the sends it leaves; and every connection that is
\* established starts a heartbeat monitor of its own, which becomes
\* self._ping_task.
C5_HeartbeatTimeoutReconnects ==
    [][/\ \A m \in Conns :
            /\ (monitors[m] # "timedout" /\ monitors'[m] = "timedout")
                => (monitors[m] = "await" /\ fut[PingOwner(m)].st = "pending"
                        /\ fut'[PingOwner(m)].st = "cancelled")
            /\ (monitors[m] = "timedout" /\ monitors'[m] # "timedout")
                => \/ reconnect' /\ monitors'[m] = "done"
                   \/ m \in cancel_requested /\ monitors'[m] = "cancelled"
       /\ (reconnect /\ pc = "recv" /\ pc' = "recv")
            => \A raw \in RawMessages \cup {Timeout}, handler \in Handlers :
                   ~PumpRecv(raw, handler)
       /\ (reconnect /\ pc \in {"recv", "handler", "send"} /\ pc' # pc)
            => \/ pc' \in {"connecting", "done"}
               \/ pc = "recv" /\ pc' = "handler"
       /\ connNo' # connNo
            => /\ connNo' = connNo + 1
               /\ monitors[connNo'] = "none"
               /\ monitors'[connNo'] = "start"
               /\ _ping_task' = connNo'
               /\ ~reconnect']_vars

\* C5 witness: a monitor has timed out and stopped (its future cancelled,
\* the task done), the pump has left that connection, a later connection is
\* up and its own monitor is waiting for a PONG.
C5_Witness ==
    \E m \in Conns :
        /\ monitors[m] = "done" /\ fut[PingOwner(m)].st = "cancelled"
        /\ connNo > m /\ pc = "recv"
        /\ monitors[connNo] = "await"

\* C10 as stated: every MESSAGE frame whose data.topic is the key of a held
\* topic invokes the handler of that one topic, once, with the decoded
\* payload; with no such topic it invokes nothing and the pump stays on the
\* connection.
C10_EveryMessageDispatched ==
    [][\A f \in AnyMessageFrames, handler \in Handlers :
          PumpRecv(json_dumps(f), handler) =>
              LET held == {t \in _topics : t.id = f.data.topic}
                  called == Handle(json_dumps(f), handler # "raises").invoked
              IN  IF held # {}
                  THEN /\ Cardinality(held) = 1
                       /\ Len(called) = 1
                       /\ \A t \in held : called[1].process = t.process
                       /\ called[1].message = json_loads(f.data.message)
                       /\ handler = "awaits" => pc' = "handler"
                  ELSE /\ called = <<>>
                       /\ connNo' = connNo
                       /\ ~reconnect => (pc' \in {"recv", "send"} /\ _ws' = _ws)]_vars

\* C10: a MESSAGE frame whose data.topic is the key of a held topic invokes
\* the handler of that one topic, once, with the decoded payload, if its
\* data.message is JSON; if it is not, no handler is invoked and the pump
\* leaves the connection for the next one.  A MESSAGE frame for a key no
\* held topic has invokes nothing, whatever its data.message, and the pump
\* stays on the connection (unless the reconnect signal was set already).
C10_MessageDispatch ==
    [][\A f \in AnyMessageFrames, handler \in Handlers :
          PumpRecv(json_dumps(f), handler) =>
              LET held == {t \in _topics : t.id = f.data.topic}
                  called == Handle(json_dumps(f), handler # "raises").invoked
              IN  IF held # {}
                  THEN /\ Cardinality(held) = 1
                       /\ IF Decodes(f.data.message)
                          THEN /\ Len(called) = 1
                               /\ \A t \in held : called[1].process = t.process
                               /\ called[1].message = json_loads(f.data.message)
                               /\ handler = "awaits" => pc' = "handler"
                          ELSE /\ called = <<>>
                               /\ pc' = "connecting"
                               /\ _ws' = "closed"
                               /\ connNo' = connNo
                  ELSE /\ called = <<>>
                       /\ connNo' = connNo
                       /\ ~reconnect => (pc' \in {"recv", "send"} /\ _ws' = _ws)]_vars

\* C10 witness: two topics with different handlers are held and the pump is
\* suspended in the handler a frame was dispatched to.
C10_Witness ==
    /\ Cardinality(_topics) = 2
    /\ pc = "handler"
    /\ \E t \in _topics : t.process = 1
    /\ \E t \in _topics : t.process = 2


(***************************************************************************)
(* Properties of the watch scheduler.                                      *)
(***************************************************************************)
Running(ws, t) == t \in DOMAIN ws /\ ws[t].st = "running"
NoneEligible == \A id \in Range(channels) : ~Eligible(id)
\* id is eligible and no channel registered before it is
FirstEligible(id) ==
    \E k \in DOMAIN channels :
        /\ channels[k] = id
        /\ Eligible(id)
        /\ \A j \in 1..(k - 1) : ~Eligible(channels[j])

\* C6: when the engaged channel has gone offline and no tracked channel is
\* eligible, the re-evaluation that follows clears the engagement reference
\* and leaves no watcher task of that channel running.
C6_OfflineChannelDisengaged ==
    [][(/\ RunScan
        /\ _watching_channel # 0
        /\ stream[_watching_channel] = NoStream
        /\ NoneEligible)
       => /\ _watching_channel' = 0
          /\ _watching_task' = 0
          /\ \A t \in DOMAIN watchers' :
                watchers'[t].channel = _watching_channel => ~Running(watchers', t)]_vars

\* C7: a re-evaluation that selects the channel that is already engaged
\* neither cancels the running watcher task nor starts another one.
C7_ReselectKeepsWatcher ==
    [][(/\ RunScan
        /\ _watching_channel # 0
        /\ FirstEligible(_watching_channel)
        /\ Running(watchers, _watching_task))
       => /\ watchers' = watchers
          /\ _watching_task' = _watching_task
          /\ _watching_channel' = _watching_channel]_vars

\* C8: while run() has not ended and no channel is engaged, a tracked
\* channel that is online, has drops enabled, plays a game of the interest
\* set and has no eligible channel registered before it is eventually the
\* engaged channel, unless it stops being that channel, a request of run()
\* fails, or the model's last connection has ended.
C8_EligibleChannelEngaged ==
    \A id \in ChannelIds :
        (rpc # "dead" /\ _watching_channel = 0 /\ FirstEligible(id))
        ~> \/ _watching_channel = id
           \/ ~FirstEligible(id)
           \/ rpc = "dead"
           \/ pc = "connecting" /\ connNo = MaxConn

\* C9: every re-evaluation that finds an eligible channel engages the
\* eligible channel that was registered first, with a running watcher task
\* of its own, whatever else the channels differ in.
C9_FirstRegisteredEligibleEngaged ==
    [][(RunScan /\ ~NoneEligible)
       => \E id \in Range(channels) :
             /\ FirstEligible(id)
             /\ _watching_channel' = id
             /\ Running(watchers', _watching_task')
             /\ watchers'[_watching_task'].channel = id
             /\ \A t \in DOMAIN watchers' : Running(watchers', t) => t = _watching_task']_vars

C9_Witness ==
    /\ Len(channels) = 2
    /\ channels[1] > channels[2]
    /\ Eligible(channels[1])
    /\ Eligible(channels[2])
    /\ _watching_channel = channels[1]
    /\ Running(watchers, _watching_task)
    /\ watchers[_watching_task].channel = channels[1]
    /\ ~_channel_change

(***************************************************************************)
(* Further properties of the subscription set.                             *)
(***************************************************************************)
\* C11: an add_topics call whose topics, together with the held ones, make
\* at most 50 keys (50 included) raises no capacity error, and leaves the
\* held set with exactly the keys held before and the keys passed, one topic
\* per key.
C11_UnionUpToCeilingAccepted ==
    [][\A c \in Calls, keys \in CapBatches :
          (/\ AddTopics(c, keys)
           /\ Cardinality(TopicIds(_topics) \cup keys) <= TopicCeiling)
          => /\ calls'[c].st # "raised"
             /\ TopicIds(_topics') = TopicIds(_topics) \cup keys
             /\ Cardinality(_topics') = Cardinality(TopicIds(_topics'))]_vars

\* C12: an add_topics call whose keys are all held already, under whatever
\* handlers, returns at once: the held set (handlers included), the send
\* queue, the pending map and every future stay as they were, also while an
\* earlier call is still waiting for the connection.
C12_RepeatIsNoOp ==
    [][\A c \in Calls, keys \in Batches(MaxLo, MaxKey) :
          (AddTopics(c, keys) /\ keys \subseteq TopicIds(_topics))
          => /\ _topics' = _topics
             /\ _send_queue' = _send_queue
             /\ _recv_dict' = _recv_dict
             /\ fut' = fut
             /\ calls'[c].st = "returned"]_vars

\* C12 witness: the first call holds two topics and still waits for the
\* connection; the second call has returned without a request of its own,
\* and both topics keep the handler of the first call.
C12_Witness ==
    /\ calls[1].st = "waitconn"
    /\ calls[2].st = "returned"
    /\ Cardinality(_topics) = 2
    /\ \A t \in _topics : t.process = 1
    /\ _send_queue = <<>>
    /\ fut[CallOwner(2)] = NoFuture
    /\ create_nonce(2) \notin DOMAIN _recv_dict

(***************************************************************************)
(* Further properties of the reconnect loop.                               *)
(***************************************************************************)
\* What makes the pump leave its connection without a closure: a frame
\* that is no JSON, a RECONNECT frame, a RESPONSE no request asked for
PumpErrors ==
    {Garbage, json_dumps([type |-> "RECONNECT"]),
     json_dumps([type |-> "RESPONSE", nonce |-> create_nonce(0)])}

\* C13: connect() ends only by a clean close that close() began; a clean
\* close begun by the server, any other closure, an undecodable frame or any
\* other error raised inside the pump (also by a handler, at once or after
\* it had suspended the pump), a RECONNECT frame and a reconnect signal
\* raised by the heartbeat monitor all take the loop to its next connection
\* attempt.
C13_OnlyLocalCloseEndsConnect ==
    [][/\ (pc # "done" /\ pc' = "done")
            => (closeCalled /\ _ws = "closing" /\ PumpClosed("ok_local"))
       /\ \A kind \in {"ok_remote", "error"} :
            PumpClosed(kind) => pc' = "connecting"
       /\ pc' # "connecting"
            => \A raw \in PumpErrors : ~PumpRecv(raw, "returns")
       /\ (pc = "recv" /\ pc' # "connecting" /\ _topics # {})
            => \A f \in MessageFrames :
                  (\E t \in _topics : t.id = f.data.topic)
                  => ~PumpRecv(json_dumps(f), "raises")
       /\ HandlerReturns(FALSE) => pc' = "connecting"
       /\ (reconnect /\ pc \in {"recv", "handler", "send"} /\ pc' # pc)
            => \/ pc' = "connecting"
               \/ PumpClosed("ok_local")
               \/ pc = "recv" /\ pc' = "handler"]_vars

\* C13 witness: connect() has returned, after a reconnect, by a local close
C13_Witness ==
    /\ pc = "done"
    /\ connNo = 2
    /\ closeCalled
    /\ _ws = "closed"

(***************************************************************************)
(* Further properties of the watch scheduler.                              *)
(***************************************************************************)
\* C14: a re-evaluation that finds no eligible channel starts a refresh pass
\* if a channel was engaged since the last pass, and enters the 120 s wait
\* if none was (as at startup); a pass asks for the stream of every tracked
\* channel, in order, and once it is complete no further pass starts until
\* a channel is engaged again, so the 120 s wait is entered after at most
\* one pass.  refresh_channels tells whether a channel was engaged since the
\* last complete pass: it rises exactly when a watcher is started and falls
\* exactly when a pass completes.
C14_OneRefreshPassThenLongWait ==
    [][/\ (RunScan /\ NoneEligible) =>
            IF refresh_channels
            THEN rpc' = "refresh" /\ refresh_at' = 1 /\ refresh_channels'
            ELSE rpc' = "sleep"
       /\ (rpc = "refresh" /\ rpc' # "refresh") =>
            \/ rpc' = "dead"
            \/ /\ rpc' = "refresh_sleep"
               /\ refresh_at' = refresh_at
               /\ \A id \in DOMAIN stream :
                     id # channels[refresh_at] => stream'[id] = stream[id]
       /\ (rpc = "refresh_sleep" /\ rpc' # "refresh_sleep") =>
            IF refresh_at < Len(channels)
            THEN rpc' = "refresh" /\ refresh_at' = refresh_at + 1
            ELSE rpc' = "wait" /\ ~refresh_channels'
       /\ (refresh_channels /\ ~refresh_channels') =>
            (rpc = "refresh_sleep" /\ rpc' = "wait")
       /\ (~refresh_channels /\ refresh_channels') =>
            Len(watchers') = Len(watchers) + 1
       /\ Len(watchers') > Len(watchers) => refresh_channels'
       /\ (rpc # "sleep" /\ rpc' = "sleep") =>
            (RunScan /\ NoneEligible /\ ~refresh_channels)]_vars

\* C14 witness: the scheduler is in its 120 s wait after a channel had been
\* engaged: the refresh pass over both channels is done and found nothing
C14_Witness ==
    /\ rpc = "sleep"
    /\ Len(channels) = 2
    /\ watchers # <<>>
    /\ ~refresh_channels
    /\ NoneEligible
    /\ ~twitchClosed

(***************************************************************************)
(* Further properties of requests and reconnects.                          *)
(***************************************************************************)
\* The entry a step appended to the send queue
Enqueued == _send_queue'[Len(_send_queue')]

\* C15: an add_topics call that adds a topic enqueues one LISTEN request,
\* with the access token; enqueued by the step that adds the topics it lists
\* every key then held, and enqueued after waiting for the connection it
\* lists at least the keys of the call and only held keys.
C15_ListenCarriesHeldSet ==
    [][\A c \in Calls :
          (calls[c].st \in {"new", "woken"} /\ calls'[c].st = "await")
          => /\ Len(_send_queue') = Len(_send_queue) + 1
             /\ Enqueued.message.type = "LISTEN"
             /\ Enqueued.message.data.auth_token = _access_token
             /\ IF calls[c].st = "new"
                THEN Enqueued.message.data.topics = TopicIds(_topics')
                ELSE /\ TopicIds(calls[c].topics) \subseteq Enqueued.message.data.topics
                     /\ Enqueued.message.data.topics \subseteq TopicIds(_topics')]_vars

\* C16: the connected flag is set only while an open connection is being
\* pumped: whenever the reconnect loop is between two connections, whatever
\* made it leave the last one, the flag is clear.
C16_ConnectedOnlyWhilePumping ==
    connected => (pc \in {"recv", "handler", "send"} /\ _ws = "open")

\* C17: a reconnect discards every pending request: when the pump of a new
\* connection starts, the pending map is empty and the send queue holds no
\* frame to be written to the new connection.
C17_ReconnectDiscardsPending ==
    [][Connect => (_recv_dict' = << >> /\ _send_queue' = <<>>)]_vars

\* C18: in every state at most one request per token is unresolved: two
\* tasks never wait at once for replies under the same token, so send()
\* never replaces the slot of a request that is still waiting.
C18_OnePendingPerToken ==
    \A o1 \in Owners, o2 \in Owners :
        (/\ fut[o1].st = "pending"
         /\ fut[o2].st = "pending"
         /\ RequestToken(o1) = RequestToken(o2))
        => o1 = o2

(***************************************************************************)
(* Properties of engagement.                                               *)
(***************************************************************************)
RunningWatchers(ws) == {t \in DOMAIN ws : ws[t].st = "running"}

\* C19: whatever sequence of watch() and stop_watching() calls is made, at
\* most one watcher task is live, it is the task self._watching_task names,
\* and only that task ever takes a step: the task of a channel that watch()
\* has switched away from, or that stop_watching() has stopped, sends no
\* further watch signal and makes no further bonus check or claim.
C19_OneLiveWatcher ==
    [][/\ Cardinality(RunningWatchers(watchers')) <= 1
       /\ \A t \in RunningWatchers(watchers') : t = _watching_task'
       /\ \A t \in DOMAIN watchers :
            (watchers'[t] # watchers[t] /\ watchers'[t].st = "running")
            => (t = _watching_task /\ watchers'[t].channel = _watching_channel)
       /\ \A t \in DOMAIN watchers :
            watchers[t].st # "running" =>
                \/ watchers'[t] = watchers[t]
                \/ /\ watchers[t].st = "cancelling"
                   /\ watchers'[t] = [watchers[t] EXCEPT !.st = "cancelled"]]_vars

\* C19 witness: two switches have been made; the tasks of the two earlier
\* channels are cancelled and the task of the third has made its bonus
\* check and sleeps.
C19_Witness ==
    /\ Len(watchers) = 3
    /\ watchers[1].st = "cancelled"
    /\ watchers[2].st = "cancelled"
    /\ watchers[1].channel # watchers[2].channel
    /\ watchers[3] = WatcherTask(watchers[1].channel, "running", "sleep", 1, 1)
    /\ _watching_task = 3

(***************************************************************************)
(* Properties of the re-evaluation signal.                                 *)
(***************************************************************************)
\* C20: the channel-change signal is set when run() enters its scheduler
\* loop, and it is set after every step that changes the stream of a
\* tracked channel (the channel goes offline or online, whether engaged or
\* not, or the game or the drops flag of its stream changes).
C20_EveryTransitionRequestsScan ==
    [][/\ (rpc = "subscribe" /\ rpc' = "wait") => _channel_change'
       /\ \A id \in DOMAIN stream :
            (rpc \in {"wait", "refresh", "refresh_sleep", "sleep"}
                /\ stream'[id] # stream[id])
            => _channel_change']_vars

(***************************************************************************)
(* Properties of the periodic action of an engagement.                     *)
(***************************************************************************)
\* C22: a watcher task starts with no tick made; every tick begins with the
\* still-watching signal; after the signal of tick k (k counted from 0 when
\* the task was created by watch()) the bonus check is made exactly when
\* k mod 30 = 0, and at no other place; a claim follows a bonus check only;
\* and a tick ends in the sleep of line 169, which is where k goes up by one.
C22_BonusCheckEveryThirtiethTick ==
    [][/\ \A t \in DOMAIN watchers' \ DOMAIN watchers :
            watchers'[t] = WatcherTask(watchers'[t].channel, "running", "start", 0, 0)
       /\ \A t \in DOMAIN watchers :
            (watchers'[t] # watchers[t] /\ watchers'[t].st = "running")
            => LET w == watchers[t]
                   v == watchers'[t]
               IN  /\ w.at \in {"start", "sleep"} => v.at = "send_watch"
                   /\ w.at = "send_watch" => (v.at = "bonus" <=> w.k % 30 = 0)
                   /\ v.at = "bonus" => w.at = "send_watch"
                   /\ v.at = "claim" => w.at = "bonus"
                   /\ v.at = "sleep" => w.at \in {"send_watch", "bonus", "claim"}
                   /\ v.k = IF v.at = "sleep" THEN w.k + 1 ELSE w.k
                   /\ v.channel = w.channel]_vars

\* C22 witness: the task of a re-engagement is at the bonus check of its
\* tick 30, its second one
C22_Witness ==
    /\ Len(watchers) = 2
    /\ watchers[1].st = "cancelled"
    /\ _watching_task = 2
    /\ watchers[2].st = "running"
    /\ watchers[2].at = "bonus"
    /\ watchers[2].k = 30

(***************************************************************************)
(* Properties of failing requests.                                         *)
(***************************************************************************)
\* A request made for the scheduler has failed and what it took down is
\* still down: run() has ended inside its refresh pass (refresh_channels is
\* True from watch() to the end of the pass, and False while run() starts
\* up), or the task self._watching_task names has ended with the error.
RequestFailed ==
    \/ rpc = "dead" /\ refresh_channels
    \/ /\ _watching_task # 0
       /\ watchers[_watching_task].st = "failed"

\* C21: after a request of the watcher task (watch signal, bonus check,
\* claim) or of the refresh pass has failed, the run loop is eventually
\* running with a live watcher task for the channel it has engaged, or with
\* no tracked channel left to engage, unless the client is closed first.
C21_FailureDoesNotStall ==
    RequestFailed
    ~> \/ twitchClosed
       \/ /\ rpc # "dead"
          /\ NoneEligible \/ Running(watchers, _watching_task)

(***************************************************************************)
(* Properties of the heartbeat monitors.                                   *)
(***************************************************************************)
\* C23: at most one heartbeat monitor task is alive, and only the monitor
\* of the latest connection sends a heartbeat or, on a timeout, sets the
\* reconnect signal: the monitor of an earlier connection does neither.
C23_NoStaleMonitor ==
    [][/\ Cardinality(LiveMonitors(monitors')) <= 1
       /\ \A m \in Conns :
            (monitors[m] # "await" /\ monitors'[m] = "await") => m = connNo
       /\ \A m \in Conns :
            (monitors[m] = "timedout" /\ monitors'[m] = "done" /\ reconnect')
            => m = connNo]_vars

(***************************************************************************)
(* Properties of close().                                                  *)
(***************************************************************************)
\* C24: once close() has been called no connection is opened and the
\* connected flag is not set again, and the pump leaves its connection only
\* for connect() to return, wherever the reconnect loop was when close()
\* was called.
C24_CloseStopsReconnectLoop ==
    [][closeCalled
       => /\ connNo' = connNo
          /\ connected' => connected
          /\ (pc \in {"recv", "handler", "send"}
                /\ pc' \notin {"recv", "handler", "send"}) => pc' = "done"]_vars

(***************************************************************************)
(* Properties of subscribing across reconnects.                            *)
(***************************************************************************)
\* C25: an add_topics call that has added topics under the ceiling and is
\* waiting, for the connection or for the reply to its LISTEN, eventually
\* returns, whatever reconnects happen meanwhile, as long as connections
\* keep being established (the model's last connection has not ended, and
\* close() has not been called) and the server answers every LISTEN it
\* receives.
C25_AddTopicsReturns ==
    \A c \in Calls :
        calls[c].st \in {"waitconn", "woken", "await"}
        ~> \/ calls[c].st = "returned"
           \/ pc = "connecting" /\ connNo = MaxConn
           \/ closeCalled

====
